---- MODULE Spec2Model ----
(***************************************************************************)
(* A model of src/src/MyAPI/MyAPI.py (Registerer, MyApp, Connection,       *)
(* HttpResponse, JSONResponse) and of the handlers src/src/main.py         *)
(* registers on it.                                                        *)
(*                                                                         *)
(* Strings and byte strings are sequences of one-character strings, so     *)
(* that split, the placeholder pattern, int(), list(), parse_qs and        *)
(* json.loads are computed character by character as the library does.    *)
(* The one atom that is not a character is "0xFF": a single byte that is   *)
(* neither ASCII nor the start of a valid UTF-8 sequence.                  *)
(***************************************************************************)
EXTENDS Integers, Sequences, FiniteSets, TLC

\* Number of connections served concurrently by one application object.
MaxConns == 2
\* Longest run of path segments after the route key in a request path.
MaxPathArgs == 2
\* Largest number of key=value fields in a request's query string.
MaxQueryFields == 2

VARIABLES
    endpoints,   \* Registerer._endpoints
    serving,     \* TRUE once main.py's decorators have run and the server accepts
    connection,  \* MyApp.connection: 0 for None, else the connection last accepted
    scope,       \* Connection.scope of each connection
    pc,          \* where the task started for each connection stands
    message,     \* what receive() returned to the task
    served,      \* the Connection object the task read its request from and sends on
    result,      \* what the task's pass through _handle_http produced
    sent         \* the messages handed to each connection's send()

vars == <<endpoints, serving, connection, scope, pc, message, served, result, sent>>

-----------------------------------------------------------------------------
(* Characters and strings *)

Digits == <<"0", "1", "2", "3", "4", "5", "6", "7", "8", "9">>

Lower == <<"a", "b", "c", "d", "e", "f", "g", "h", "i", "j", "k", "l", "m",
           "n", "o", "p", "q", "r", "s", "t", "u", "v", "w", "x", "y", "z">>

Range(f) == {f[i] : i \in DOMAIN f}

IndexIn(c, alphabet) == CHOOSE i \in DOMAIN alphabet : alphabet[i] = c

DigitChars == Range(Digits)
LowerChars == Range(Lower)
WordChars == DigitChars \cup LowerChars \cup {"_"}

IsDigit(c) == c \in DigitChars

DigitValue(c) == IndexIn(c, Digits) - 1

\* \w of the re module, over the characters the model uses
IsWordChar(c) == c \in WordChars

\* ord() of a character, the value list(bytes) yields for it
Ord(c) ==
    IF c \in DigitChars THEN 47 + IndexIn(c, Digits)
    ELSE IF c \in LowerChars THEN 96 + IndexIn(c, Lower)
    ELSE IF c = "-" THEN 45
    ELSE IF c = "_" THEN 95
    ELSE IF c = "0xFF" THEN 255
    ELSE 63

\* the first index of text t holding one of the characters cs, 0 when none
FirstIndex(t, cs) ==
    LET hits == {i \in DOMAIN t : t[i] \in cs}
    IN  IF hits = {} THEN 0 ELSE CHOOSE i \in hits : \A j \in hits : i <= j

\* str.split(sep): n separators give n + 1 pieces, empty ones included
RECURSIVE Split(_, _)
Split(t, sep) ==
    LET i == FirstIndex(t, {sep})
    IN  IF i = 0 THEN <<t>>
        ELSE <<SubSeq(t, 1, i - 1)>> \o Split(SubSeq(t, i + 1, Len(t)), sep)

\* [x for x in xs if x != ""]
RECURSIVE NonEmpty(_)
NonEmpty(xs) ==
    IF xs = <<>> THEN <<>>
    ELSE IF Head(xs) = <<>> THEN NonEmpty(Tail(xs))
    ELSE <<Head(xs)>> \o NonEmpty(Tail(xs))

RECURSIVE Join(_, _)
Join(xs, sep) ==
    IF xs = <<>> THEN <<>>
    ELSE IF Len(xs) = 1 THEN xs[1]
    ELSE xs[1] \o <<sep>> \o Join(Tail(xs), sep)

RECURSIVE Concat(_)
Concat(xs) == IF xs = <<>> THEN <<>> ELSE Head(xs) \o Concat(Tail(xs))

\* the sequences over S of length 0..n
SeqsUpTo(S, n) == UNION {[1..k -> S] : k \in 0..n}

-----------------------------------------------------------------------------
(* Python values: every value is a record of one shape *)

PyNone == [t |-> "none", i |-> 0, s |-> <<>>, l |-> <<>>]
PyInt(n) == [t |-> "int", i |-> n, s |-> <<>>, l |-> <<>>]
PyStr(text) == [t |-> "str", i |-> 0, s |-> text, l |-> <<>>]
PyList(items) == [t |-> "list", i |-> 0, s |-> <<>>, l |-> items]

\* an ordered dict as a sequence of [name, value] entries
DictHas(d, k) == \E i \in DOMAIN d : d[i].name = k
DictGet(d, k) == d[CHOOSE i \in DOMAIN d : d[i].name = k].value
DictKeys(d) == {d[i].name : i \in DOMAIN d}
DictSet(d, k, v) ==
    IF DictHas(d, k)
    THEN [i \in DOMAIN d |-> IF d[i].name = k THEN [name |-> k, value |-> v] ELSE d[i]]
    ELSE Append(d, [name |-> k, value |-> v])

-----------------------------------------------------------------------------
(* Library conversions.  A conversion returns [exc, val]: exc is "" when it
   succeeds and the name of the exception class it raises otherwise. *)

Returned(v) == [exc |-> "", val |-> v]
Raised(e) == [exc |-> e, val |-> PyNone]

RECURSIVE DigitsValue(_)
DigitsValue(t) ==
    IF t = <<>> THEN 0
    ELSE 10 * DigitsValue(SubSeq(t, 1, Len(t) - 1)) + DigitValue(t[Len(t)])

\* int(text): an optional sign, then one or more decimal digits
IntLiteral(t) ==
    LET body == IF t # <<>> /\ t[1] \in {"-", "+"} THEN Tail(t) ELSE t
    IN  body # <<>> /\ \A i \in DOMAIN body : IsDigit(body[i])

IntOf(t) ==
    IF t[1] = "-" THEN 0 - DigitsValue(Tail(t))
    ELSE IF t[1] = "+" THEN DigitsValue(Tail(t))
    ELSE DigitsValue(t)

\* str(n) of an int
RECURSIVE NatText(_)
NatText(n) ==
    IF n < 10 THEN <<Digits[n + 1]>>
    ELSE NatText(n \div 10) \o <<Digits[(n % 10) + 1]>>

IntText(n) == IF n < 0 THEN <<"-">> \o NatText(0 - n) ELSE NatText(n)

\* the digits of rem / den after the decimal point, by long division; exact for
\* quotients whose expansion ends within the digits left, which str() prints whole
RECURSIVE FractionText(_, _, _)
FractionText(rem, den, left) ==
    IF rem = 0 \/ left = 0 THEN <<>>
    ELSE <<Digits[((10 * rem) \div den) + 1]>>
         \o FractionText((10 * rem) % den, den, left - 1)

\* str(num / den) of the float quotient of two ints, den > 0
FloatText(num, den) ==
    LET a == IF num < 0 THEN 0 - num ELSE num
        frac == FractionText(a % den, den, 16)
    IN  (IF num < 0 THEN <<"-">> ELSE <<>>)
        \o NatText(a \div den) \o <<".">>
        \o (IF frac = <<>> THEN <<"0">> ELSE frac)

\* annotation(value), the call of lines 181 and 184.  "int" is the class int;
\* "list" is the alias list[float | int], whose call is list(value): the
\* characters of a str (a path segment), the byte values of a bytes (a query
\* value).  "empty" is inspect.Parameter.empty, the annotation of a parameter
\* declared without one, which takes no argument.
Coerce(annotation, raw, isBytes) ==
    IF annotation = "int"
    THEN IF IntLiteral(raw) THEN Returned(PyInt(IntOf(raw))) ELSE Raised("ValueError")
    ELSE IF annotation = "list"
    THEN Returned(PyList([i \in DOMAIN raw |->
            IF isBytes THEN PyInt(Ord(raw[i])) ELSE PyStr(<<raw[i]>>)]))
    ELSE IF annotation = "str"
    THEN Returned(PyStr(raw))
    ELSE Raised("TypeError")

(* urlsplit(path).path *)

\* _splitnetloc(url, 2): the netloc ends at the first of / ? # after the two slashes
SplitNetloc(url) ==
    LET rest == SubSeq(url, 3, Len(url))
        d == FirstIndex(rest, {"/", "?", "#"})
    IN  IF d = 0 THEN [netloc |-> rest, url |-> <<>>]
        ELSE [netloc |-> SubSeq(rest, 1, d - 1), url |-> SubSeq(rest, d, Len(rest))]

CutAt(t, cs) ==
    LET i == FirstIndex(t, cs) IN IF i = 0 THEN t ELSE SubSeq(t, 1, i - 1)

\* urlsplit(url).path for a url without a scheme (no ":" occurs in a path of the model)
UrlsplitPath(url) ==
    LET hasNetloc == Len(url) >= 2 /\ url[1] = "/" /\ url[2] = "/"
        sp == IF hasNetloc THEN SplitNetloc(url) ELSE [netloc |-> <<>>, url |-> url]
        open == "[" \in Range(sp.netloc)
        close == "]" \in Range(sp.netloc)
    IN  IF open # close THEN Raised("ValueError")
        ELSE Returned(PyStr(CutAt(CutAt(sp.url, {"#"}), {"?"})))

(* parse_qs(query_string) on bytes *)

HexDigits == <<"0", "1", "2", "3", "4", "5", "6", "7", "8", "9",
               "a", "b", "c", "d", "e", "f">>

HexChars == Range(HexDigits)

IsHex(c) == c \in HexChars

\* TRUE when unquote() of t yields a character outside ASCII: a %hh escape of a
\* byte of 0x80 or more, which decodes to that character or to U+FFFD
RECURSIVE UnquotesNonAscii(_)
UnquotesNonAscii(t) ==
    IF Len(t) < 3 \/ "%" \notin Range(t) THEN FALSE
    ELSE IF t[1] = "%" /\ IsHex(t[2]) /\ IsHex(t[3])
    THEN IndexIn(t[2], HexDigits) - 1 >= 8 \/ UnquotesNonAscii(SubSeq(t, 4, Len(t)))
    ELSE UnquotesNonAscii(Tail(t))

Chr(code) ==
    IF \E c \in WordChars \cup {"-"} : Ord(c) = code
    THEN CHOOSE c \in WordChars \cup {"-"} : Ord(c) = code
    ELSE "?"

\* unquote(t) of a text whose escapes are all ASCII
RECURSIVE Unquote(_)
Unquote(t) ==
    IF "%" \notin Range(t) THEN t
    ELSE IF Len(t) >= 3 /\ t[1] = "%" /\ IsHex(t[2]) /\ IsHex(t[3])
    THEN <<Chr(16 * (IndexIn(t[2], HexDigits) - 1) + IndexIn(t[3], HexDigits) - 1)>>
         \o Unquote(SubSeq(t, 4, Len(t)))
    ELSE <<Head(t)>> \o Unquote(Tail(t))

\* parse_qsl: the (name, value) pairs of the fields that hold "=" and a value
RECURSIVE QslPairs(_)
QslPairs(fields) ==
    IF fields = <<>> THEN <<>>
    ELSE LET f == Head(fields)
             eq == FirstIndex(f, {"="})
             name == SubSeq(f, 1, eq - 1)
             value == SubSeq(f, eq + 1, Len(f))
         IN  IF eq = 0 \/ value = <<>> THEN QslPairs(Tail(fields))
             ELSE <<[name |-> name, value |-> value]>> \o QslPairs(Tail(fields))

\* {k.decode(): v[0] for k, v in parse_qs(...).items()}: a key keeps the place and
\* the value of its first pair
RECURSIVE FirstValues(_, _)
FirstValues(pairs, d) ==
    IF pairs = <<>> THEN d
    ELSE LET p == Head(pairs)
             k == Unquote(p.name)
         IN  FirstValues(Tail(pairs),
                         IF DictHas(d, k) THEN d ELSE DictSet(d, k, Unquote(p.value)))

\* lines 173-174.  A byte outside ASCII makes _coerce_args raise UnicodeDecodeError
\* and an escape of one makes _coerce_result raise UnicodeEncodeError: both are
\* ValueError.  val.l is the dict, in insertion order.
ParseQs(qs) ==
    LET pairs == QslPairs(IF qs = <<>> THEN <<>> ELSE Split(qs, "&"))
    IN  IF "0xFF" \in Range(qs) THEN Raised("ValueError")
        ELSE IF \E i \in DOMAIN pairs :
                    UnquotesNonAscii(pairs[i].name) \/ UnquotesNonAscii(pairs[i].value)
        THEN Raised("ValueError")
        ELSE Returned(PyList(FirstValues(pairs, <<>>)))

(* json.loads(bytes), for null, integers, strings without escapes and arrays;
   no other JSON text is among the bodies of the model *)

JsonFail == [ok |-> FALSE, val |-> PyNone, rest |-> <<>>]
JsonOk(v, rest) == [ok |-> TRUE, val |-> v, rest |-> rest]

\* the number of leading digits of t
DigitRun(t) ==
    LET nd == {i \in DOMAIN t : ~IsDigit(t[i])}
    IN  IF nd = {} THEN Len(t) ELSE (CHOOSE i \in nd : \A j \in nd : i <= j) - 1

\* -?(0|[1-9][0-9]*)
ParseJsonNumber(t) ==
    LET neg == t[1] = "-"
        body == IF neg THEN Tail(t) ELSE t
        run == IF body # <<>> /\ body[1] = "0" THEN 1 ELSE DigitRun(body)
        n == DigitsValue(SubSeq(body, 1, run))
    IN  IF run = 0 THEN JsonFail
        ELSE JsonOk(PyInt(IF neg THEN 0 - n ELSE n), SubSeq(body, run + 1, Len(body)))

RECURSIVE ParseJsonValue(_)
RECURSIVE ParseJsonItems(_, _)

ParseJsonValue(t) ==
    IF t = <<>> THEN JsonFail
    ELSE IF Len(t) >= 4 /\ SubSeq(t, 1, 4) = <<"n", "u", "l", "l">>
    THEN JsonOk(PyNone, SubSeq(t, 5, Len(t)))
    ELSE IF t[1] = "\""
    THEN LET j == FirstIndex(Tail(t), {"\""})
         IN  IF j = 0 THEN JsonFail
             ELSE JsonOk(PyStr(SubSeq(t, 2, j)), SubSeq(t, j + 2, Len(t)))
    ELSE IF t[1] = "["
    THEN IF Len(t) >= 2 /\ t[2] = "]" THEN JsonOk(PyList(<<>>), SubSeq(t, 3, Len(t)))
         ELSE ParseJsonItems(Tail(t), <<>>)
    ELSE IF t[1] = "-" \/ IsDigit(t[1]) THEN ParseJsonNumber(t)
    ELSE JsonFail

ParseJsonItems(t, acc) ==
    LET v == ParseJsonValue(t)
    IN  IF ~v.ok \/ v.rest = <<>> THEN JsonFail
        ELSE IF v.rest[1] = "," THEN ParseJsonItems(Tail(v.rest), Append(acc, v.val))
        ELSE IF v.rest[1] = "]" THEN JsonOk(PyList(Append(acc, v.val)), Tail(v.rest))
        ELSE JsonFail

\* json.loads: bytes that are not UTF-8 raise UnicodeDecodeError (a ValueError
\* that is not a JSONDecodeError) before any parsing
JsonLoads(bytes) ==
    IF "0xFF" \in Range(bytes) THEN Raised("UnicodeDecodeError")
    ELSE LET r == ParseJsonValue(bytes)
         IN  IF r.ok /\ r.rest = <<>> THEN Returned(r.val) ELSE Raised("JSONDecodeError")

\* json.dumps({"result": text})
JsonDumpsResult(text) ==
    <<"{", "\"", "r", "e", "s", "u", "l", "t", "\"", ":", " ", "\"">>
    \o text \o <<"\"", "}">>

-----------------------------------------------------------------------------
(* Responses *)

DefaultHeaders == << <<"content-type", "text/plain">> >>

\* HttpResponse.__init__
HttpResponse(body, status_code, headers) ==
    [body |-> body, status_code |-> status_code,
     headers |-> IF headers # <<>> THEN headers ELSE DefaultHeaders]

\* JSONResponse.__init__, given json.dumps(body)
JSONResponse(dumped, status_code) == HttpResponse(dumped, status_code, <<>>)

NoResponse == [body |-> <<>>, status_code |-> 0, headers |-> <<>>]

\* the two messages of Connection.send_response
StartMessage(response) ==
    [type |-> "http.response.start", status |-> response.status_code,
     headers |-> response.headers, body |-> <<>>, more_body |-> FALSE]

BodyMessage(response) ==
    [type |-> "http.response.body", status |-> 0, headers |-> <<>>,
     body |-> response.body, more_body |-> FALSE]

-----------------------------------------------------------------------------
(* The handlers of main.py, and two handlers of more than one parameter that
   the registrations beyond main.py pass to register().  A call returns
   [exc, invoked, response]: invoked tells whether the handler's body ran. *)

Param(name, annotation) == [name |-> name, annotation |-> annotation]

\* inspect.signature(func).parameters
Signature(func) ==
    CASE func = "factorial" -> <<Param(<<"n">>, "int")>>
      [] func = "fibonacci" -> <<Param(<<"n">>, "int")>>
      [] func = "mean" -> <<Param(<<"a", "r", "r", "a", "y">>, "list")>>
      [] func = "pair" -> <<Param(<<"a">>, "int"), Param(<<"b">>, "int")>>
      [] func = "mixed" -> <<Param(<<"a">>, "int"), Param(<<"b">>, "list")>>

HandlerReturned(response) == [exc |-> "", invoked |-> TRUE, response |-> response]
HandlerRaised(exc) == [exc |-> exc, invoked |-> TRUE, response |-> NoResponse]
CallRejected == [exc |-> "TypeError", invoked |-> FALSE, response |-> NoResponse]

\* reduce(lambda x, y: x * y, range(1, n + 1), 1)
RECURSIVE ProductTo(_)
ProductTo(n) == IF n < 1 THEN 1 ELSE n * ProductTo(n - 1)

factorial(n) ==
    IF n.t # "int" THEN HandlerRaised("TypeError")
    ELSE IF n.i < 0 THEN HandlerReturned(HttpResponse(<<>>, 400, <<>>))
    ELSE HandlerReturned(JSONResponse(JsonDumpsResult(IntText(ProductTo(n.i))), 200))

\* a after `steps` rounds of a, b = b, a + b
RECURSIVE FibLoop(_, _, _)
FibLoop(a, b, steps) == IF steps <= 0 THEN a ELSE FibLoop(b, a + b, steps - 1)

fibonacci(n) ==
    IF n.t # "int" THEN HandlerRaised("TypeError")
    ELSE IF n.i < 0 THEN HandlerReturned(HttpResponse(<<>>, 400, <<>>))
    ELSE HandlerReturned(JSONResponse(JsonDumpsResult(IntText(FibLoop(1, 1, n.i - 1))), 200))

RECURSIVE SumInts(_)
SumInts(items) == IF items = <<>> THEN 0 ELSE Head(items).i + SumInts(Tail(items))

mean(array) ==
    IF array.t \notin {"list", "str"} THEN HandlerRaised("TypeError")
    ELSE IF Len(array.l) + Len(array.s) = 0
    THEN HandlerReturned(HttpResponse(<<>>, 400, <<>>))
    ELSE IF array.t = "str" \/ \E i \in DOMAIN array.l : array.l[i].t # "int"
    THEN HandlerRaised("TypeError")
    ELSE HandlerReturned(JSONResponse(
            JsonDumpsResult(FloatText(SumInts(array.l), Len(array.l))), 200))

\* async def pair(a: int, b: int): return HttpResponse()
pair(a, b) == HandlerReturned(HttpResponse(<<>>, 200, <<>>))

\* async def mixed(a: int, b: list[float | int]): return HttpResponse()
mixed(a, b) == HandlerReturned(HttpResponse(<<>>, 200, <<>>))

\* endpoint.func(**func_args): the call is rejected with TypeError, before the
\* body runs, unless the keywords are exactly the parameters (none has a default)
Call(func, func_args) ==
    LET sig == Signature(func)
    IN  IF DictKeys(func_args) # {sig[i].name : i \in DOMAIN sig} THEN CallRejected
        ELSE CASE func = "factorial" -> factorial(DictGet(func_args, <<"n">>))
               [] func = "fibonacci" -> fibonacci(DictGet(func_args, <<"n">>))
               [] func = "mean" -> mean(DictGet(func_args, <<"a", "r", "r", "a", "y">>))
               [] func = "pair" -> pair(DictGet(func_args, <<"a">>), DictGet(func_args, <<"b">>))
               [] func = "mixed" -> mixed(DictGet(func_args, <<"a">>), DictGet(func_args, <<"b">>))

-----------------------------------------------------------------------------
(* Registerer *)

\* re.findall(r"{(\w+)}", path)
Placeholders(path) ==
    {SubSeq(path, i + 1, j - 1) : <<i, j>> \in
        {<<i, j>> \in (DOMAIN path) \X (DOMAIN path) :
            /\ i + 1 < j
            /\ path[i] = "{"
            /\ path[j] = "}"
            /\ \A k \in (i + 1)..(j - 1) : IsWordChar(path[k])}}

\* SelectParams, if the loop appended every parameter to query_args, without
\* the else
SelectParamsNoElse(sig, names, inPath) ==
    IF inPath THEN SelectSeq(sig, LAMBDA p : p.name \in names) ELSE sig

\* [p for p in signature if keep(p)], in declaration order
RECURSIVE SelectParams(_, _, _)
SelectParams(sig, names, inPath) ==
    IF sig = <<>> THEN <<>>
    ELSE (IF (Head(sig).name \in names) = inPath THEN <<Head(sig)>> ELSE <<>>)
         \o SelectParams(Tail(sig), names, inPath)

\* the Endpoint that add_endpoint builds; path.split("/")[1] needs a "/" in path
Endpoint(path, method, func) ==
    [path |-> Split(path, "/")[2],
     method |-> method,
     func |-> func,
     path_args |-> SelectParams(Signature(func), Placeholders(path), TRUE),
     query_args |-> SelectParams(Signature(func), Placeholders(path), FALSE)]

\* the decorators of main.py, in the order its import runs them
MainRegistrations ==
    << [path |-> <<"/", "f", "a", "c", "t", "o", "r", "i", "a", "l", "/">>,
        method |-> "GET", func |-> "factorial"],
       [path |-> <<"/", "f", "i", "b", "o", "n", "a", "c", "c", "i", "/", "{", "n", "}">>,
        method |-> "GET", func |-> "fibonacci"],
       [path |-> <<"/", "m", "e", "a", "n", "/">>,
        method |-> "GET", func |-> "mean"] >>

-----------------------------------------------------------------------------
(* MyApp.find_endpoint.  It returns [exc, ep, bound, func_args]: ep is the
   index of the endpoint chosen (0 when none was), bound the argument mapping
   after the path and query loops, func_args the mapping returned. *)

Found(ep, bound, func_args) ==
    [exc |-> "", ep |-> ep, bound |-> bound, func_args |-> func_args]
FindRaised(exc, ep) == [exc |-> exc, ep |-> ep, bound |-> <<>>, func_args |-> <<>>]

\* lines 170-172
UrlSegments(pathText) == NonEmpty(Split(pathText, "/"))
EpPath(urlst) == IF Len(urlst) > 0 THEN urlst[1] ELSE <<>>
PathArgs(urlst) == IF Len(urlst) > 1 THEN Tail(urlst) ELSE <<>>

\* lines 176-177, from the i-th endpoint on: the loop stops at the first endpoint
\* with the path and the method; 0 when it runs to the end of the list
RECURSIVE ScanEndpoints(_, _, _, _)
ScanEndpoints(eps, i, ep_path, method) ==
    IF i > Len(eps) THEN 0
    ELSE IF eps[i].path = ep_path /\ eps[i].method = method THEN i
    ELSE ScanEndpoints(eps, i + 1, ep_path, method)

FirstMatch(eps, ep_path, method) == ScanEndpoints(eps, 1, ep_path, method)

\* lines 179-181, from the i-th segment on: list(...)[i] raises IndexError when
\* the endpoint has no i-th path parameter, then the annotation is called
RECURSIVE BindPath(_, _, _, _)
BindPath(endpoint, path_args, i, func_args) ==
    IF i > Len(path_args) THEN Returned(PyList(func_args))
    ELSE IF i > Len(endpoint.path_args) THEN Raised("IndexError")
    ELSE LET p == endpoint.path_args[i]
             v == Coerce(p.annotation, path_args[i], FALSE)
         IN  IF v.exc # "" THEN Raised(v.exc)
             ELSE BindPath(endpoint, path_args, i + 1, DictSet(func_args, p.name, v.val))

\* BindQuery, if the value were stored under the name of the declared parameter
\* in place of the request's key
RECURSIVE BindQueryByDeclaredName(_, _, _, _)
BindQueryByDeclaredName(endpoint, query_args, i, func_args) ==
    IF i > Len(query_args) THEN Returned(PyList(func_args))
    ELSE IF i > Len(endpoint.query_args) THEN Raised("IndexError")
    ELSE LET v == Coerce(endpoint.query_args[i].annotation, query_args[i].value, TRUE)
         IN  IF v.exc # "" THEN Raised(v.exc)
             ELSE BindQueryByDeclaredName(endpoint, query_args, i + 1,
                            DictSet(func_args, endpoint.query_args[i].name, v.val))

\* BindQuery, if the loop stopped at the first key beyond the declared parameters
RECURSIVE BindQueryIgnoringSurplus(_, _, _, _)
BindQueryIgnoringSurplus(endpoint, query_args, i, func_args) ==
    IF i > Len(query_args) \/ i > Len(endpoint.query_args) THEN Returned(PyList(func_args))
    ELSE LET v == Coerce(endpoint.query_args[i].annotation, query_args[i].value, TRUE)
         IN  IF v.exc # "" THEN Raised(v.exc)
             ELSE BindQueryIgnoringSurplus(endpoint, query_args, i + 1,
                            DictSet(func_args, query_args[i].name, v.val))

\* lines 182-184, from the i-th query entry on: the i-th declared query
\* parameter gives the type, the request's key gives the name
RECURSIVE BindQuery(_, _, _, _)
BindQuery(endpoint, query_args, i, func_args) ==
    IF i > Len(query_args) THEN Returned(PyList(func_args))
    ELSE IF i > Len(endpoint.query_args) THEN Raised("IndexError")
    ELSE LET v == Coerce(endpoint.query_args[i].annotation, query_args[i].value, TRUE)
         IN  IF v.exc # "" THEN Raised(v.exc)
             ELSE BindQuery(endpoint, query_args, i + 1,
                            DictSet(func_args, query_args[i].name, v.val))

\* `x not in func_args.keys()` of line 188: x is an inspect.Parameter and the keys
\* are str; Parameter.__eq__ answers NotImplemented for a str, so no key equals x
ParameterInKeys(x, func_args) == FALSE

\* line 188
Diff(endpoint, func_args) ==
    SelectSeq(endpoint.query_args, LAMBDA x : ~ParameterInKeys(x, func_args))

\* AssignData, if the loop stopped after the first parameter of diff
AssignDataToFirst(diff, data, func_args) ==
    IF diff = <<>> THEN func_args
    ELSE DictSet(func_args, Head(diff).name, data)

\* lines 189-190
RECURSIVE AssignData(_, _, _)
AssignData(diff, data, func_args) ==
    IF diff = <<>> THEN func_args
    ELSE AssignData(Tail(diff), data, DictSet(func_args, Head(diff).name, data))

\* lines 187-190
BindBody(endpoint, data, func_args) ==
    IF data # PyNone THEN AssignData(Diff(endpoint, func_args), data, func_args)
    ELSE func_args

\* lines 187-191, given what the query loop left
BindLast(endpoint, ep, afterQuery, data) ==
    IF afterQuery.exc # "" THEN FindRaised(afterQuery.exc, ep)
    ELSE Found(ep, afterQuery.val.l, BindBody(endpoint, data, afterQuery.val.l))

\* lines 182-191, given what the path loop left
BindRest(endpoint, ep, afterPath, query_args, data) ==
    IF afterPath.exc # "" THEN FindRaised(afterPath.exc, ep)
    ELSE BindLast(endpoint, ep, BindQuery(endpoint, query_args, 1, afterPath.val.l), data)

\* lines 178-191, for the endpoint matched
Bind(eps, ep, path_args, query_args, data) ==
    IF ep = 0 THEN FindRaised("NotImplementedError", 0)
    ELSE BindRest(eps[ep], ep, BindPath(eps[ep], path_args, 1, <<>>), query_args, data)

\* lines 173-192, given the segments of the path and what parse_qs made
Match(eps, urlst, query, method, data) ==
    IF query.exc # "" THEN FindRaised(query.exc, 0)
    ELSE Bind(eps, FirstMatch(eps, EpPath(urlst), method), PathArgs(urlst), query.val.l, data)

\* lines 170-192, given what urlsplit made of the path
FindFrom(eps, split, query_string, method, data) ==
    IF split.exc # "" THEN FindRaised(split.exc, 0)
    ELSE Match(eps, UrlSegments(split.val.s), ParseQs(query_string), method, data)

find_endpoint(eps, path, query_string, method, data) ==
    FindFrom(eps, UrlsplitPath(path), query_string, method, data)

-----------------------------------------------------------------------------
(* MyApp._handle_http *)

\* lines 146-149: what json.loads raises that is not a JSONDecodeError goes on
DecodeBody(msg) ==
    LET r == JsonLoads(IF msg.has_body THEN msg.body ELSE <<"[", "]">>)
    IN  IF r.exc = "JSONDecodeError" THEN Returned(PyNone) ELSE r

\* CaughtStatus, if the first except clause named ValueError and JSONDecodeError only
CaughtStatusWithoutTypeError(exc) ==
    IF exc \in {"ValueError", "JSONDecodeError", "UnicodeDecodeError"} THEN 422
    ELSE IF exc = "NotImplementedError" THEN 404
    ELSE 0

\* the except clauses of lines 160-165: the status answered for an exception
\* raised in the try block, 0 when no clause catches it
CaughtStatus(exc) ==
    IF exc \in {"ValueError", "TypeError", "JSONDecodeError", "UnicodeDecodeError"} THEN 422
    ELSE IF exc = "NotImplementedError" THEN 404
    ELSE 0

\* What one pass of _handle_http makes of the scope it reads and the message it
\* received.  stage tells how far it came: "accept" (_handle raised, line 140,
\* before _handle_http), "decode" (json.loads raised, outside the try block),
\* "find" (find_endpoint raised), "call" (the call of the handler was rejected),
\* "handler" (the handler's body raised), "returned" (the handler returned).
\* response is what send_response is given; uncaught tells that the exception
\* left _handle_http and nothing is sent.
Outcome(stage, exc, data, found, invoked, response) ==
    [stage |-> stage, exc |-> exc, data |-> data, ep |-> found.ep,
     bound |-> found.bound, func_args |-> found.func_args, invoked |-> invoked,
     uncaught |-> exc # "" /\ (stage \in {"accept", "decode"} \/ CaughtStatus(exc) = 0),
     response |-> IF exc = "" THEN response
                  ELSE IF stage \in {"accept", "decode"} \/ CaughtStatus(exc) = 0 THEN NoResponse
                  ELSE HttpResponse(<<>>, CaughtStatus(exc), <<>>)]

NotFound == FindRaised("", 0)

\* Answer, if the dispatcher answered 422 in place of a handler's own 400
AnswerOverridden(data, found, answer) ==
    IF ~answer.invoked THEN Outcome("call", answer.exc, data, found, FALSE, NoResponse)
    ELSE IF answer.exc # "" THEN Outcome("handler", answer.exc, data, found, TRUE, NoResponse)
    ELSE IF answer.response.status_code = 400
    THEN Outcome("returned", "", data, found, TRUE, HttpResponse(<<>>, 422, <<>>))
    ELSE Outcome("returned", "", data, found, TRUE, answer.response)

\* lines 158-165, given what the call of the handler made
Answer(data, found, answer) ==
    IF ~answer.invoked THEN Outcome("call", answer.exc, data, found, FALSE, NoResponse)
    ELSE IF answer.exc # "" THEN Outcome("handler", answer.exc, data, found, TRUE, NoResponse)
    ELSE Outcome("returned", "", data, found, TRUE, answer.response)

\* lines 157-165, given what find_endpoint made
Invoke(eps, data, found) ==
    IF found.exc # "" THEN Outcome("find", found.exc, data, found, FALSE, NoResponse)
    ELSE Answer(data, found, Call(eps[found.ep].func, found.func_args))

\* lines 150-165, given what the decoding made
Dispatch(eps, sc, decoded) ==
    IF decoded.exc # "" THEN Outcome("decode", decoded.exc, PyNone, NotFound, FALSE, NoResponse)
    ELSE Invoke(eps, decoded.val,
                find_endpoint(eps, sc.path, sc.query_string, sc.method, decoded.val))

HandleHttp(eps, sc, msg) == Dispatch(eps, sc, DecodeBody(msg))

NoOutcome == Outcome("", "", PyNone, NotFound, FALSE, NoResponse)

-----------------------------------------------------------------------------
(* The requests of the model *)

Conns == 1..MaxConns

KeyFactorial == <<"f", "a", "c", "t", "o", "r", "i", "a", "l">>
KeyFibonacci == <<"f", "i", "b", "o", "n", "a", "c", "c", "i">>
KeyMean == <<"m", "e", "a", "n">>
KeyUnknown == <<"u", "n", "k", "n", "o", "w", "n", "r", "o", "u", "t", "e">>

RouteKeys == {KeyFactorial, KeyFibonacci, KeyMean, KeyUnknown}

\* what a path segment may hold
SegmentTexts == {<<"5">>, <<"a", "b", "c">>}

\* what a query value may hold
ValueTexts == {<<"5">>, <<"-", "3">>, <<"a", "b", "c">>}

Methods == {"GET", "POST"}

\* /key, /key/seg, /key/seg/seg ..., and a few paths of other shapes
Paths ==
    {<<"/">> \o Join(<<k>> \o segs, "/") : k \in RouteKeys, segs \in SeqsUpTo(SegmentTexts, MaxPathArgs)}
    \cup {<<>>, <<"/">>,
          <<"/">> \o KeyFactorial \o <<"/">>,
          <<"/">> \o KeyFibonacci \o <<"/", "-", "3">>,
          <<"/", "/">> \o KeyUnknown \o <<"/">> \o KeyFactorial,
          <<"/", "/", "[">>}

\* n=5 n=-3 n=abc m=5, a field with no value, and one whose value escapes byte 0xff
QueryFields ==
    {<<"n", "=">> \o v : v \in ValueTexts}
    \cup {<<"m", "=", "5">>, <<"n", "=">>, <<"n", "=", "%", "f", "f">>}

QueryStrings == {Join(fs, "&") : fs \in SeqsUpTo(QueryFields, MaxQueryFields)}

HttpScope(path, query_string, method) ==
    [type |-> "http", path |-> path, query_string |-> query_string, method |-> method]

NoScope == [type |-> "", path |-> <<>>, query_string |-> <<>>, method |-> ""]

\* a scope of another protocol: the lifespan scope a server sends at startup
LifespanScope == [type |-> "lifespan", path |-> <<>>, query_string |-> <<>>, method |-> ""]

Scopes ==
    {HttpScope(p, q, m) : p \in Paths, q \in QueryStrings, m \in Methods}
    \cup {LifespanScope}

\* the requests of the concrete scenarios, and one with a segment too many
ScenarioScopes ==
    {HttpScope(<<"/">> \o KeyFactorial \o <<"/">>, <<"n", "=", "5">>, "GET"),
     HttpScope(<<"/">> \o KeyFactorial \o <<"/">>, <<"n", "=", "a", "b", "c">>, "GET"),
     HttpScope(<<"/">> \o KeyFibonacci \o <<"/", "5">>, <<>>, "GET"),
     HttpScope(<<"/">> \o KeyMean \o <<"/">>, <<>>, "GET"),
     HttpScope(<<"/">> \o KeyUnknown, <<>>, "GET"),
     HttpScope(<<"/">> \o KeyFactorial \o <<"/", "5">>, <<>>, "GET")}

Body(bytes) == [has_body |-> TRUE, body |-> bytes]

\* a message with no "body" key
NoBodyKey == [has_body |-> FALSE, body |-> <<>>]

NoMessage == [has_body |-> FALSE, body |-> <<"-">>]

\* what receive() may return: no body key, b"", b"{bad", a byte that is not
\* UTF-8, and the JSON texts null, 7, "x", [] and [1,2,3]
Messages ==
    {NoBodyKey, Body(<<>>), Body(<<"{", "b", "a", "d">>), Body(<<"0xFF">>),
     Body(<<"n", "u", "l", "l">>), Body(<<"7">>), Body(<<"\"", "x", "\"">>),
     Body(<<"[", "]">>), Body(<<"[", "1", ",", "2", ",", "3", "]">>)}

ScenarioMessages == {Body(<<>>), Body(<<"[", "1", ",", "2", ",", "3", "]">>)}

-----------------------------------------------------------------------------
(* The state machine *)

Init ==
    /\ endpoints = <<>>
    /\ serving = FALSE
    /\ connection = 0
    /\ scope = [c \in Conns |-> NoScope]
    /\ pc = [c \in Conns |-> "idle"]
    /\ message = [c \in Conns |-> NoMessage]
    /\ served = [c \in Conns |-> 0]
    /\ result = [c \in Conns |-> NoOutcome]
    /\ sent = [c \in Conns |-> <<>>]

\* Registerer.add_endpoint, as the import of main.py calls it: the next decorator
Register ==
    /\ ~serving
    /\ Len(endpoints) < Len(MainRegistrations)
    /\ LET r == MainRegistrations[Len(endpoints) + 1]
       IN  endpoints' = Append(endpoints, Endpoint(r.path, r.method, r.func))
    /\ UNCHANGED <<serving, connection, scope, pc, message, served, result, sent>>

\* uvicorn.run(app): the import is over, connections are accepted from now on
Run ==
    /\ ~serving
    /\ Len(endpoints) = Len(MainRegistrations)
    /\ serving' = TRUE
    /\ UNCHANGED <<endpoints, connection, scope, pc, message, served, result, sent>>

\* MyApp.__call__'s _handle for a new connection c, whose scope is one of
\* scopes, up to the await of receive(): self.connection is assigned, then read
\* back for receive
Accept(c, scopes) ==
    /\ serving
    /\ pc[c] = "idle"
    /\ \E sc \in scopes :
        /\ scope' = [scope EXCEPT ![c] = sc]
        /\ IF sc.type = "http"
           THEN /\ connection' = c
                /\ pc' = [pc EXCEPT ![c] = "receive"]
                /\ UNCHANGED result
           ELSE /\ UNCHANGED connection
                /\ pc' = [pc EXCEPT ![c] = "raised"]
                /\ result' = [result EXCEPT ![c] =
                        Outcome("accept", "NotImplementedError", PyNone, NotFound, FALSE, NoResponse)]
    /\ UNCHANGED <<endpoints, serving, message, served, sent>>

\* Handle, if find_endpoint took the endpoint it looks at off the list
HandlePoppingEndpoint(c, messages) ==
    /\ pc[c] = "receive"
    /\ \E msg \in messages :
        LET r == HandleHttp(endpoints, scope[connection], msg)
        IN  /\ message' = [message EXCEPT ![c] = msg]
            /\ result' = [result EXCEPT ![c] = r]
            /\ served' = [served EXCEPT ![c] = IF r.stage = "decode" THEN 0 ELSE connection]
            /\ IF r.uncaught
               THEN /\ pc' = [pc EXCEPT ![c] = "raised"]
                    /\ UNCHANGED sent
               ELSE /\ pc' = [pc EXCEPT ![c] = "send_body"]
                    /\ sent' = [sent EXCEPT ![connection] = Append(@, StartMessage(r.response))]
    /\ endpoints' = IF endpoints = <<>> THEN endpoints ELSE Tail(endpoints)
    /\ UNCHANGED <<serving, connection, scope>>

\* _handle_http from the return of receive(), with one of messages, to the first
\* await of send_response: decode, find_endpoint on the scope of self.connection
\* as it is now, the handler (which awaits nothing), and the start message
Handle(c, messages) ==
    /\ pc[c] = "receive"
    /\ \E msg \in messages :
        LET r == HandleHttp(endpoints, scope[connection], msg)
        IN  /\ message' = [message EXCEPT ![c] = msg]
            /\ result' = [result EXCEPT ![c] = r]
            /\ served' = [served EXCEPT ![c] = IF r.stage = "decode" THEN 0 ELSE connection]
            /\ IF r.uncaught
               THEN /\ pc' = [pc EXCEPT ![c] = "raised"]
                    /\ UNCHANGED sent
               ELSE /\ pc' = [pc EXCEPT ![c] = "send_body"]
                    /\ sent' = [sent EXCEPT ![connection] = Append(@, StartMessage(r.response))]
    /\ UNCHANGED <<endpoints, serving, connection, scope>>

\* send_response after its first await: the body message, on the Connection
\* object send_response was called on
SendBody(c) ==
    /\ pc[c] = "send_body"
    /\ sent' = [sent EXCEPT ![served[c]] = Append(@, BodyMessage(result[c].response))]
    /\ pc' = [pc EXCEPT ![c] = "done"]
    /\ UNCHANGED <<endpoints, serving, connection, scope, message, served, result>>

\* connections served concurrently, with the requests of the scenarios
Next ==
    \/ Register
    \/ Run
    \/ \E c \in Conns : Accept(c, ScenarioScopes)
    \/ \E c \in Conns : Handle(c, ScenarioMessages)
    \/ \E c \in Conns : SendBody(c)

Spec == Init /\ [][Next]_vars

\* one connection, with every request of the model
NextRequest ==
    \/ Register
    \/ Run
    \/ Accept(1, Scopes)
    \/ Handle(1, Messages)
    \/ SendBody(1)

SpecRequest == Init /\ [][NextRequest]_vars

-----------------------------------------------------------------------------
(* Registrations beyond those of main.py: register() called with other
   templates, methods and handlers, duplicates among them, then requests on
   one connection. *)

MaxRegistrations == 2

KeyPair == <<"p", "a", "i", "r">>
KeyMixed == <<"m", "i", "x", "e", "d">>

Registration(path, method, func) == [path |-> path, method |-> method, func |-> func]

\* the calls of register() the model draws from: the three of main.py's shapes,
\* a second handler under /factorial/ GET, the same key under POST, a handler of
\* two parameters under templates that name both, one or none of them (the
\* placeholders in the reverse of declaration order), a handler of two query
\* parameters of different types, and a template that does not start with "/"
Registrations ==
    {Registration(<<"/">> \o KeyFactorial \o <<"/">>, "GET", "factorial"),
     Registration(<<"/">> \o KeyFactorial \o <<"/">>, "GET", "mean"),
     Registration(<<"/">> \o KeyFactorial \o <<"/">>, "POST", "fibonacci"),
     Registration(<<"/">> \o KeyFibonacci \o <<"/", "{", "n", "}">>, "GET", "fibonacci"),
     Registration(<<"/">> \o KeyPair \o <<"/", "{", "b", "}", "/", "{", "a", "}">>, "GET", "pair"),
     Registration(<<"/">> \o KeyPair \o <<"/", "{", "b", "}">>, "GET", "pair"),
     Registration(<<"/">> \o KeyPair \o <<"/">>, "GET", "pair"),
     Registration(<<"/">> \o KeyMixed \o <<"/">>, "GET", "mixed"),
     Registration(KeyFactorial \o <<"/">>, "GET", "factorial")}

\* Registerer.register(path, method)(func): add_endpoint appends the Endpoint
RegisterOne(r) ==
    /\ ~serving
    /\ Len(endpoints) < MaxRegistrations
    /\ endpoints' = Append(endpoints, Endpoint(r.path, r.method, r.func))
    /\ UNCHANGED <<serving, connection, scope, pc, message, served, result, sent>>

\* the server starts after whatever was registered
Serve ==
    /\ ~serving
    /\ serving' = TRUE
    /\ UNCHANGED <<endpoints, connection, scope, pc, message, served, result, sent>>

RegistryPaths ==
    {<<>>,
     <<"/">> \o KeyFactorial,
     <<"/">> \o KeyFibonacci \o <<"/", "5">>,
     <<"/">> \o KeyPair,
     <<"/">> \o KeyPair \o <<"/", "5">>,
     <<"/">> \o KeyPair \o <<"/", "5", "/", "7">>,
     <<"/">> \o KeyMixed,
     <<"/", "/">> \o KeyUnknown \o <<"/">> \o KeyFactorial}

\* none, n=5, a=5, b=7, a=5&b=7, b=7&a=5
RegistryQueryStrings ==
    {<<>>, <<"n", "=", "5">>, <<"a", "=", "5">>, <<"b", "=", "7">>,
     <<"a", "=", "5", "&", "b", "=", "7">>, <<"b", "=", "7", "&", "a", "=", "5">>}

RegistryScopes ==
    {HttpScope(p, q, m) : p \in RegistryPaths, q \in RegistryQueryStrings, m \in Methods}

\* b"" and b"7"
RegistryMessages == {Body(<<>>), Body(<<"7">>)}

NextRegistrations ==
    \/ \E r \in Registrations : RegisterOne(r)
    \/ Serve
    \/ Accept(1, RegistryScopes)
    \/ Handle(1, RegistryMessages)
    \/ SendBody(1)

SpecRegistrations == Init /\ [][NextRegistrations]_vars

-----------------------------------------------------------------------------
(* The vocabulary of the claims *)

\* the task started for connection c is over: it returned or an exception left it
Ended(c) == pc[c] \in {"done", "raised"}

\* the task started for c has received its message
Received(c) == pc[c] \in {"send_body", "done", "raised"} /\ result[c].stage # "accept"

\* the task has received its message and decoded it without raising
Decoded(c) == Received(c) /\ result[c].stage # "decode"

\* the route key and the path arguments of a request path: split on "/", drop
\* the empty segments, the first is the key ("" when none), the rest the arguments
RouteKeyOf(path) == EpPath(NonEmpty(Split(path, "/")))
SegmentsAfterKey(path) == PathArgs(NonEmpty(Split(path, "/")))

\* the registered endpoints with the route key and the method of request sc
Matching(sc) ==
    {i \in DOMAIN endpoints :
        endpoints[i].path = RouteKeyOf(sc.path) /\ endpoints[i].method = sc.method}

Earliest(S) == CHOOSE i \in S : \A j \in S : i <= j

\* the status of the response started on connection c, 0 when none was
WireStatus(c) == IF sent[c] = <<>> THEN 0 ELSE sent[c][1].status

\* connection c got one complete response: a start, then a final body
CompleteResponse(c) ==
    /\ Len(sent[c]) = 2
    /\ sent[c][1].type = "http.response.start"
    /\ sent[c][2].type = "http.response.body"
    /\ ~sent[c][2].more_body

\* the entries of the query string of sc, one per key, in the order of the keys
QueryEntries(sc) ==
    LET q == ParseQs(sc.query_string) IN IF q.exc = "" THEN q.val.l ELSE <<>>

-----------------------------------------------------------------------------
(* C1: under every interleaving of concurrent request tasks, each task reads
   the path, query string and method of the connection it was started for and
   sends its response on that connection.  served[c] is the connection whose
   scope the task started for c read and on which it sent; it is 0 until then. *)
C1_TaskKeepsItsConnection == \A c \in Conns : served[c] \in {0, c}

(* C2: the messages sent on a request's connection are exactly two, a start
   and then a final body: never a second start, never a body before a start,
   and, once the request's task is over, never a start without its body or
   nothing at all. *)
C2_StartThenFinalBody ==
    \A c \in Conns :
        /\ Len(sent[c]) <= 2
        /\ \A i \in DOMAIN sent[c] :
                sent[c][i].type = IF i = 1 THEN "http.response.start" ELSE "http.response.body"
        /\ Len(sent[c]) = 2 => ~sent[c][2].more_body
        /\ (scope[c].type = "http" /\ \A d \in Conns : pc[d] \in {"idle", "done", "raised"})
                => (pc[c] = "idle" \/ Len(sent[c]) = 2)

(* C3: when a request matches a registered endpoint by (routeKey, method) and
   has more path segments after the route key than the endpoint has path
   parameters, the response status is 422.  Stated for the requests whose body
   was decoded, so that the body plays no part. *)
C3_ExtraSegmentsGive422 ==
    \A c \in Conns :
        (/\ Decoded(c)
         /\ served[c] = c
         /\ Matching(scope[c]) # {}
         /\ Len(SegmentsAfterKey(scope[c].path))
                > Len(endpoints[Earliest(Matching(scope[c]))].path_args))
        => WireStatus(c) = 422

(* C4: when no registered endpoint has the request's route key and method, the
   response status is 404 for every query string and every body, and no
   handler is invoked.  Stated for the requests whose body was decoded. *)
C4_NoMatchGives404 ==
    \A c \in Conns :
        (/\ Decoded(c)
         /\ served[c] = c
         /\ Matching(scope[c]) = {})
        => (WireStatus(c) = 404 /\ ~result[c].invoked)

(* C5: when the message has no body or its body is not decodable as JSON,
   decoding does not raise, the decoded body is null, and nothing is bound from
   the body: the argument mapping is the one the path and the query gave. *)
C5_UndecodableBodyIsNull ==
    \A c \in Conns :
        (/\ Received(c)
         /\ \/ ~message[c].has_body
            \/ message[c].body = <<>>
            \/ JsonLoads(message[c].body).exc # "")
        => (/\ result[c].stage # "decode"
            /\ result[c].data = PyNone
            /\ result[c].func_args = result[c].bound)

(* C6: when the decoded body is not null, it is assigned only to declared
   query parameters that the path and the query left unbound: every argument
   bound from a path segment or a query value keeps its value.  Stated for the
   messages that hold a body. *)
C6_BodyKeepsBoundArguments ==
    \A c \in Conns :
        (/\ Decoded(c)
         /\ message[c].has_body
         /\ result[c].ep # 0
         /\ result[c].exc # "IndexError"
         /\ result[c].data # PyNone)
        => \A i \in DOMAIN result[c].bound :
                /\ DictHas(result[c].func_args, result[c].bound[i].name)
                /\ DictGet(result[c].func_args, result[c].bound[i].name)
                        = result[c].bound[i].value

\* the names of the parameters ps, in their order
Names(ps) == [i \in DOMAIN ps |-> ps[i].name]

\* the query of sc names exactly the query parameters of endpoint e, in
\* declaration order, each with a value its declared type accepts
QuerySuppliesAll(sc, e) ==
    /\ ParseQs(sc.query_string).exc = ""
    /\ Names(QueryEntries(sc)) = Names(e.query_args)
    /\ \A i \in DOMAIN e.query_args :
            Coerce(e.query_args[i].annotation, QueryEntries(sc)[i].value, TRUE).exc = ""

\* the arguments such a query stands for: each value coerced to its declared type
CoercedQuery(sc, e) ==
    [i \in DOMAIN e.query_args |->
        [name |-> e.query_args[i].name,
         value |-> Coerce(e.query_args[i].annotation, QueryEntries(sc)[i].value, TRUE).val]]

(* C7: for a registered endpoint without path parameters, a request with its
   route key and method whose query supplies exactly the declared parameter
   names, in declaration order and with coercible values, has the handler
   invoked with those coerced values and is answered 200 with the handler's
   result.  Stated for the messages that hold a body that was decoded, and for
   the values the handler itself answers with 200. *)
C7_ExactQueryGives200 ==
    \A c \in Conns :
        (/\ Decoded(c)
         /\ message[c].has_body
         /\ served[c] = c
         /\ Matching(scope[c]) # {}
         /\ SegmentsAfterKey(scope[c].path) = <<>>
         /\ endpoints[Earliest(Matching(scope[c]))].path_args = <<>>
         /\ QuerySuppliesAll(scope[c], endpoints[Earliest(Matching(scope[c]))])
         /\ Call(endpoints[Earliest(Matching(scope[c]))].func,
                 CoercedQuery(scope[c], endpoints[Earliest(Matching(scope[c]))]))
                .response.status_code = 200)
        => (/\ result[c].invoked
            /\ result[c].func_args
                    = CoercedQuery(scope[c], endpoints[Earliest(Matching(scope[c]))])
            /\ WireStatus(c) = 200
            /\ result[c].response
                    = Call(endpoints[Earliest(Matching(scope[c]))].func,
                           CoercedQuery(scope[c], endpoints[Earliest(Matching(scope[c]))]))
                      .response)

\* a text that is not a numeric string stands at a position of the path or of
\* the query of sc whose parameter, in endpoint e, is declared int
NonNumericAtNumeric(sc, e) ==
    \/ \E i \in DOMAIN SegmentsAfterKey(sc.path) :
            /\ i <= Len(e.path_args)
            /\ e.path_args[i].annotation = "int"
            /\ ~IntLiteral(SegmentsAfterKey(sc.path)[i])
    \/ \E i \in DOMAIN QueryEntries(sc) :
            /\ i <= Len(e.query_args)
            /\ e.query_args[i].annotation = "int"
            /\ ~IntLiteral(QueryEntries(sc)[i].value)

(* C8: when a request matches an endpoint and a path segment or query value
   that is not a numeric string stands at a position whose declared type is
   numeric, the response status is 422 and the handler is not invoked.  Stated
   for the requests whose body was decoded. *)
C8_NonNumericGives422 ==
    \A c \in Conns :
        (/\ Decoded(c)
         /\ served[c] = c
         /\ Matching(scope[c]) # {}
         /\ NonNumericAtNumeric(scope[c], endpoints[Earliest(Matching(scope[c]))]))
        => (WireStatus(c) = 422 /\ ~result[c].invoked)

(* C9: every request that is received ends with one complete response, a
   start and a final body, sent to its client, whether it succeeds, fails to
   route, fails to bind or is refused by the handler. *)
C9_EveryRequestAnswered ==
    \A c \in Conns :
        (Received(c) /\ served[c] = c /\ Ended(c)) => CompleteResponse(c)

(* C10: the dispatcher answers 404 only when no endpoint matches the request
   and 422 only when matching or binding raised; a failure raised inside the
   handler, once it is invoked, is never turned into a 404 or a 422. *)
C10_HandlerFailureNot404Or422 ==
    \A c \in Conns :
        (Decoded(c) /\ served[c] = c /\ result[c].exc # "")
        => (/\ WireStatus(c) = 404 => Matching(scope[c]) = {}
            /\ WireStatus(c) = 422 => result[c].stage \in {"find", "call"}
            /\ result[c].stage = "handler" => WireStatus(c) \notin {404, 422})

-----------------------------------------------------------------------------
\* what the handler of the endpoint chosen for c returns for the arguments it
\* was given
HandlerResponse(c) == Call(endpoints[result[c].ep].func, result[c].func_args).response

(* C11: when the handler returns a response, the status, the headers and the
   body sent on the wire are exactly those of the returned response, the
   handler's own 400 included: the dispatcher does not replace or alter it. *)
C11_HandlerResponseUnaltered ==
    \A c \in Conns :
        (pc[c] = "done" /\ result[c].stage = "returned")
        => (/\ \E i, j \in DOMAIN sent[served[c]] :
                    /\ i < j
                    /\ sent[served[c]][i].type = "http.response.start"
                    /\ sent[served[c]][i].status = HandlerResponse(c).status_code
                    /\ sent[served[c]][i].headers = HandlerResponse(c).headers
                    /\ sent[served[c]][j].type = "http.response.body"
                    /\ sent[served[c]][j].body = HandlerResponse(c).body
                    /\ ~sent[served[c]][j].more_body
            /\ (\A d \in Conns \ {c} : served[d] # served[c])
                    => Len(sent[served[c]]) = 2)

\* a handler answered 400 and 400 went out, with an empty body
C11_Witness400 ==
    \E c \in Conns :
        /\ pc[c] = "done"
        /\ result[c].stage = "returned"
        /\ HandlerResponse(c).status_code = 400
        /\ WireStatus(c) = 400
        /\ sent[c][2].body = <<>>

(* C12: after any sequence of registrations, a request is dispatched to the
   earliest-registered endpoint whose route key and method both equal the
   request's; an endpoint registered later with the same route key and method
   is never selected and its handler never invoked.  result[c].ep is the
   endpoint find_endpoint chose for the request, 0 when it chose none. *)
C12_EarliestMatchSelected ==
    \A c \in Conns :
        (Decoded(c) /\ served[c] = c /\ result[c].ep # 0)
        => (/\ Matching(scope[c]) # {}
            /\ result[c].ep = Earliest(Matching(scope[c])))

\* find_endpoint chose an endpoint for the request of c and returned: the path
\* and the query are bound
BindingDone(c) ==
    /\ Decoded(c)
    /\ served[c] = c
    /\ result[c].ep # 0
    /\ result[c].stage \in {"call", "handler", "returned"}

\* the i-th entry of the parsed query is in the mapping under its own key, with
\* the value the type of the i-th declared query parameter makes of it
PositionallyBound(c) ==
    LET entries == QueryEntries(scope[c])
        e == endpoints[result[c].ep]
    IN  \A i \in DOMAIN entries :
            /\ i <= Len(e.query_args)
            /\ DictHas(result[c].bound, entries[i].name)
            /\ DictGet(result[c].bound, entries[i].name)
                    = Coerce(e.query_args[i].annotation, entries[i].value, TRUE).val

\* the mapping is the one a binding by name gives: every key is the name of a
\* declared query parameter and holds what that parameter's type makes of the value
EqualsNameMatched(c) ==
    LET entries == QueryEntries(scope[c])
        e == endpoints[result[c].ep]
    IN  \A i \in DOMAIN entries :
            \E k \in DOMAIN e.query_args :
                /\ e.query_args[k].name = entries[i].name
                /\ Coerce(e.query_args[k].annotation, entries[i].value, TRUE).exc = ""
                /\ Coerce(e.query_args[k].annotation, entries[i].value, TRUE).val
                        = DictGet(result[c].bound, entries[i].name)

\* the i-th query key is the name of the i-th declared query parameter
KeysInDeclarationOrder(c) ==
    LET entries == QueryEntries(scope[c])
        e == endpoints[result[c].ep]
    IN  \A i \in DOMAIN entries :
            i <= Len(e.query_args) /\ entries[i].name = e.query_args[i].name

(* C13, as stated: query binding is positional, the value of the i-th key being
   coerced with the type of the i-th declared query parameter and stored under
   the request's key, so that the mapping equals a name-matched binding exactly
   when the query keys appear in declaration order. *)
C13_NameMatchedExactlyWhenOrdered ==
    \A c \in Conns :
        BindingDone(c)
        => (/\ PositionallyBound(c)
            /\ EqualsNameMatched(c) <=> KeysInDeclarationOrder(c))

(* C13, amended: query binding is positional, the value of the i-th key being
   coerced with the type of the i-th declared query parameter and stored under
   the request's key, so that the mapping equals a name-matched binding
   whenever the query keys appear in declaration order. *)
C13_PositionalQueryBinding ==
    \A c \in Conns :
        BindingDone(c)
        => (/\ PositionallyBound(c)
            /\ KeysInDeclarationOrder(c) => EqualsNameMatched(c))

\* /mixed?b=7&a=5 on mixed(a: int, b: list): b holds int(b"7"), a holds list(b"5")
C13_WitnessSwappedKeys ==
    \E c \in Conns :
        /\ BindingDone(c)
        /\ endpoints[result[c].ep].func = "mixed"
        /\ Len(QueryEntries(scope[c])) = 2
        /\ QueryEntries(scope[c])[1].name = <<"b">>
        /\ DictGet(result[c].bound, <<"b">>) = PyInt(7)
        /\ DictGet(result[c].bound, <<"a">>) = PyList(<<PyInt(53)>>)

(* C14: when the decoded body is not null and declared query parameters are
   still unbound after the path and the query are bound, every such parameter
   is bound to the whole body value, the same for all, and no path parameter
   is bound from the body: a path parameter is in the mapping only with the
   value its path segment gave it. *)
C14_WholeBodyToUnboundQueryParams ==
    \A c \in Conns :
        (BindingDone(c) /\ result[c].data # PyNone)
        => LET e == endpoints[result[c].ep]
           IN  /\ \A i \in DOMAIN e.query_args :
                    ~DictHas(result[c].bound, e.query_args[i].name)
                    => /\ DictHas(result[c].func_args, e.query_args[i].name)
                       /\ DictGet(result[c].func_args, e.query_args[i].name) = result[c].data
               /\ \A i \in DOMAIN e.path_args :
                    DictHas(result[c].func_args, e.path_args[i].name)
                    => /\ DictHas(result[c].bound, e.path_args[i].name)
                       /\ DictGet(result[c].func_args, e.path_args[i].name)
                            = DictGet(result[c].bound, e.path_args[i].name)

\* GET /pair with the body 7 on pair(a, b) under /pair/: neither query
\* parameter was bound, and both a and b hold 7
C14_WitnessBothUnbound ==
    \E c \in Conns :
        /\ BindingDone(c)
        /\ result[c].data = PyInt(7)
        /\ result[c].bound = <<>>
        /\ Names(endpoints[result[c].ep].query_args) = << <<"a">>, <<"b">> >>
        /\ DictKeys(result[c].func_args) = { <<"a">>, <<"b">> }
        /\ DictGet(result[c].func_args, <<"a">>) = PyInt(7)
        /\ DictGet(result[c].func_args, <<"b">>) = PyInt(7)

\* the text {name} stands somewhere in the template
HasPlaceholder(template, name) ==
    \E i \in DOMAIN template :
        /\ i + Len(name) + 1 <= Len(template)
        /\ SubSeq(template, i, i + Len(name) + 1) = <<"{">> \o name \o <<"}">>

\* the place of the parameter called name in the signature sig
DeclaredAt(sig, name) == CHOOSE k \in DOMAIN sig : sig[k].name = name

\* the parameters ps are parameters of sig, in the order sig declares them
InDeclarationOrder(sig, ps) ==
    /\ \A i \in DOMAIN ps : \E k \in DOMAIN sig : sig[k] = ps[i]
    /\ \A i, j \in DOMAIN ps :
            i < j => DeclaredAt(sig, ps[i].name) < DeclaredAt(sig, ps[j].name)

\* endpoint e splits the parameters of handler func as the template tells
SplitsParameters(template, func, e) ==
    /\ Range(Names(e.path_args)) \cap Range(Names(e.query_args)) = {}
    /\ Range(Names(e.path_args)) \cup Range(Names(e.query_args))
            = Range(Names(Signature(func)))
    /\ \A k \in DOMAIN Signature(func) :
            Signature(func)[k].name \in Range(Names(e.path_args))
            <=> HasPlaceholder(template, Signature(func)[k].name)
    /\ InDeclarationOrder(Signature(func), e.path_args)
    /\ InDeclarationOrder(Signature(func), e.query_args)

(* C15: for every registration, the handler's parameter names are split into
   path parameters and query parameters, disjoint and together all of the
   handler's parameters; a name is a path parameter exactly when {name} stands
   in the template; both lists keep the handler's declaration order, not the
   template's.  Stated of the endpoint each registration appends. *)
C15_ParametersPartitioned ==
    [][\A r \in Registrations :
            RegisterOne(r)
            => SplitsParameters(r.path, r.func, endpoints'[Len(endpoints')])]_vars

\* registered: the handler of parameters a, b under a template that names b
\* before a, its path parameters a then b; and the same handler under a template
\* that names b only, a its query parameter
C15_WitnessBothOrders ==
    \E i, j \in DOMAIN endpoints :
        /\ Names(endpoints[i].path_args) = << <<"a">>, <<"b">> >>
        /\ endpoints[i].query_args = <<>>
        /\ Names(endpoints[j].path_args) = << <<"b">> >>
        /\ Names(endpoints[j].query_args) = << <<"a">> >>

(* C16: handling a request, whatever its outcome, leaves the route table
   unchanged: the sequence of endpoints and each endpoint's route key, method,
   handler, path parameters and query parameters are after every step of a
   request task what they were before it.  The steps of the request tasks are
   those that move a task (pc changes). *)
C16_RouteTableUnchanged == [][pc' # pc => endpoints' = endpoints]_vars

\* a request has ended with an uncaught IndexError, and the table is the one
\* main.py registered
C16_WitnessAfterUncaught ==
    \E c \in Conns :
        /\ pc[c] = "raised"
        /\ result[c].exc = "IndexError"
        /\ endpoints = [i \in DOMAIN MainRegistrations |->
                            Endpoint(MainRegistrations[i].path, MainRegistrations[i].method,
                                     MainRegistrations[i].func)]

(* C17: for every path template, the route key stored at registration is the
   first non-empty "/"-separated segment of the template, so that a request
   whose first non-empty path segment is that segment, with the same method,
   matches the endpoint.  Stated of the endpoint each registration appends. *)
C17_RouteKeyIsFirstSegment ==
    [][\A r \in Registrations :
            RegisterOne(r)
            => endpoints'[Len(endpoints')].path = RouteKeyOf(r.path)]_vars

\* the mapping returned for c leaves out a parameter of the handler (none has a
\* default) or holds a name that is not one of its parameters
ArgumentsMisfit(c) ==
    LET sig == Signature(endpoints[result[c].ep].func)
    IN  \/ \E k \in DOMAIN sig : ~DictHas(result[c].func_args, sig[k].name)
        \/ \E i \in DOMAIN result[c].func_args :
                \A k \in DOMAIN sig : sig[k].name # result[c].func_args[i].name

(* C18: if a request matches an endpoint and binding completes without a
   coercion failure, but the argument mapping leaves out a handler parameter
   that has no default or holds a name that is not a handler parameter, the
   handler's body does not execute and the response status is 422. *)
C18_MisfitArgumentsGive422 ==
    \A c \in Conns :
        (BindingDone(c) /\ ArgumentsMisfit(c))
        => (~result[c].invoked /\ WireStatus(c) = 422)

\* GET /factorial?m=5 with an empty body: the mapping holds m and not n, the
\* factorial handler did not run and 422 went out
C18_WitnessWrongName ==
    \E c \in Conns :
        /\ BindingDone(c)
        /\ pc[c] = "done"
        /\ endpoints[result[c].ep].func = "factorial"
        /\ DictKeys(result[c].func_args) = { <<"m">> }
        /\ ~result[c].invoked
        /\ WireStatus(c) = 422

\* the distinct keys written in a query string: what stands before the "=" of
\* each of its "&"-separated fields
QueryStringKeys(qs) ==
    {CutAt(NonEmpty(Split(qs, "&"))[i], {"="}) : i \in DOMAIN NonEmpty(Split(qs, "&"))}

\* the segments after the route key in the path find_endpoint splits
SegmentsBound(sc) ==
    IF UrlsplitPath(sc.path).exc = ""
    THEN PathArgs(UrlSegments(UrlsplitPath(sc.path).val.s))
    ELSE <<>>

\* every path segment and every query value of sc that stands at the position
\* of a declared parameter of endpoint e is one its declared type accepts
DeclaredPositionsCoerce(sc, e) ==
    /\ \A i \in DOMAIN SegmentsBound(sc) :
            i <= Len(e.path_args)
            => Coerce(e.path_args[i].annotation, SegmentsBound(sc)[i], FALSE).exc = ""
    /\ \A i \in DOMAIN QueryEntries(sc) :
            i <= Len(e.query_args)
            => Coerce(e.query_args[i].annotation, QueryEntries(sc)[i].value, TRUE).exc = ""

\* the request of c failed with the out-of-range failure, which nothing
\* classified: the handler was not invoked and no message was sent
UnclassifiedOutOfRange(c) ==
    /\ pc[c] = "raised"
    /\ result[c].exc = "IndexError"
    /\ ~result[c].invoked
    /\ sent[c] = <<>>

(* C19, as stated: if a request matches an endpoint and its query string
   contains more distinct keys than the endpoint has declared query
   parameters, binding fails with an out-of-range failure that the dispatcher
   does not classify: the handler is not invoked and no start or body message
   is sent for the request. *)
C19_SurplusKeysAlwaysUnclassified ==
    \A c \in Conns :
        (/\ Decoded(c)
         /\ served[c] = c
         /\ result[c].ep # 0
         /\ Cardinality(QueryStringKeys(scope[c].query_string))
                > Len(endpoints[result[c].ep].query_args))
        => UnclassifiedOutOfRange(c)

(* C19, amended: if a request matches an endpoint, its parsed query map holds
   more keys than the endpoint has declared query parameters, and every path
   segment and query value at a declared position coerces, binding fails with
   an out-of-range failure that the dispatcher does not classify: the handler
   is not invoked and no start or body message is sent for the request. *)
C19_SurplusKeysUnclassified ==
    \A c \in Conns :
        (/\ Decoded(c)
         /\ served[c] = c
         /\ result[c].ep # 0
         /\ ParseQs(scope[c].query_string).exc = ""
         /\ Len(QueryEntries(scope[c])) > Len(endpoints[result[c].ep].query_args)
         /\ DeclaredPositionsCoerce(scope[c], endpoints[result[c].ep]))
        => UnclassifiedOutOfRange(c)

\* GET /mean?n=5&m=5: two keys for the one query parameter of mean, an
\* IndexError left the task and nothing was sent
C19_WitnessTwoKeysOneParameter ==
    \E c \in Conns :
        /\ UnclassifiedOutOfRange(c)
        /\ Decoded(c)
        /\ endpoints[result[c].ep].func = "mean"
        /\ SegmentsBound(scope[c]) = <<>>
        /\ Names(QueryEntries(scope[c])) = << <<"n">>, <<"m">> >>

====
